---- MODULE Spec2Model ----
(***************************************************************************)
(* clipguard: the cross-app paste-risk monitor.                            *)
(*                                                                         *)
(* The model covers the monitor thread of start_clipboard_monitor          *)
(* (clipboard.rs for macOS, clipboard_windows.rs for Windows), the blocker *)
(* thread fed through an mpsc channel, the rule matcher of rules.rs and    *)
(* the tauri commands of lib.rs that write the shared ClipboardState.      *)
(*                                                                         *)
(* Option<T> is the record [some, v]; application ids are sequences of     *)
(* ASCII codes so that eq_ignore_ascii_case / to_ascii_lowercase are       *)
(* computed, not assumed.                                                  *)
(***************************************************************************)
EXTENDS Integers, Sequences, FiniteSets, TLC

\* ------------------------------------------------------------------ bounds
\* number of clipboard writes the environment performs
MaxCopies == 2
\* capacity given to the (unbounded) mpsc channel
MaxChan == 2
\* longest rule list drawn for the matcher specification
MaxRules == 2

\* ------------------------------------------------------------ Option, ids
NoneId == [some |-> FALSE, v |-> <<>>]
SomeId(s) == [some |-> TRUE, v |-> s]
NoneName == [some |-> FALSE, v |-> ""]
SomeName(s) == [some |-> TRUE, v |-> s]

\* ASCII codes: "e", "E", "t", "T", "n"
id_e == <<101>>
id_E == <<69>>
id_t == <<116>>
id_T == <<84>>
id_n == <<110>>

to_ascii_lowercase(s) ==
    [i \in DOMAIN s |-> IF s[i] \in 65..90 THEN s[i] + 32 ELSE s[i]]

eq_ignore_ascii_case(a, b) ==
    /\ Len(a) = Len(b)
    /\ \A i \in 1..Len(a) :
          (IF a[i] \in 65..90 THEN a[i] + 32 ELSE a[i])
        = (IF b[i] \in 65..90 THEN b[i] + 32 ELSE b[i])

Platforms == {"macos", "windows"}

\* Applications the OS can report as frontmost: the raw id (bundle id on
\* macOS, executable file name on Windows) and the display name.  The last
\* one is the unresolved foreground process.  Two macOS bundle ids differ in
\* case only; the Windows file name of the editor is in upper case.
OsApps(p) ==
    (IF p = "macos"
     THEN { [id |-> SomeId(id_e), name |-> SomeName("editor")],
            [id |-> SomeId(id_E), name |-> SomeName("Editor2")] }
     ELSE { [id |-> SomeId(id_E), name |-> SomeName("editor")] })
    \cup
    { [id |-> SomeId(id_t), name |-> SomeName("term")],
      [id |-> SomeId(id_n), name |-> SomeName("notes")],
      [id |-> NoneId,       name |-> NoneName] }

\* ------------------------------------------------------------------ rules
RuleActions == {"Notify", "Block"}

Rule(f, t, a) ==
    [from_app_id |-> f, from_app_name |-> NoneName,
     to_app_id |-> t, to_app_name |-> NoneName, action |-> a]

\* a rule as the settings window stores it, with the display names
RuleNamed(f, fname, t, tname, a) ==
    [from_app_id |-> f, from_app_name |-> fname,
     to_app_id |-> t, to_app_name |-> tname, action |-> a]

NoneRule == [some |-> FALSE, v |-> Rule(NoneId, NoneId, "Notify")]
SomeRule(r) == [some |-> TRUE, v |-> r]

\* a closure that lets an absent source id satisfy a concrete from pattern
rule_matches_absent_source(r, source_app_id, dest_app_id) ==
    LET from_matches ==
            IF ~r.from_app_id.some THEN TRUE
            ELSE IF source_app_id.some
                 THEN eq_ignore_ascii_case(source_app_id.v, r.from_app_id.v)
                 ELSE TRUE
        to_matches ==
            IF ~r.to_app_id.some THEN TRUE
            ELSE eq_ignore_ascii_case(r.to_app_id.v, dest_app_id)
    IN from_matches /\ to_matches

\* the closure passed to find() in matches_rule
rule_matches(r, source_app_id, dest_app_id) ==
    LET from_matches ==
            IF ~r.from_app_id.some THEN TRUE
            ELSE IF source_app_id.some
                 THEN eq_ignore_ascii_case(source_app_id.v, r.from_app_id.v)
                 ELSE FALSE
        to_matches ==
            IF ~r.to_app_id.some THEN TRUE
            ELSE eq_ignore_ascii_case(r.to_app_id.v, dest_app_id)
    IN from_matches /\ to_matches

RECURSIVE find_rule(_, _, _, _)
find_rule(rs, i, source_app_id, dest_app_id) ==
    IF i > Len(rs) THEN NoneRule
    ELSE IF rule_matches(rs[i], source_app_id, dest_app_id)
         THEN SomeRule(rs[i])
         ELSE find_rule(rs, i + 1, source_app_id, dest_app_id)

\* a matcher that keeps the last matching rule instead of the first
RECURSIVE find_rule_last(_, _, _, _)
find_rule_last(rs, i, source_app_id, dest_app_id) ==
    IF i < 1 THEN NoneRule
    ELSE IF rule_matches(rs[i], source_app_id, dest_app_id)
         THEN SomeRule(rs[i])
         ELSE find_rule_last(rs, i - 1, source_app_id, dest_app_id)

matches_rule_last(rs, source_app_id, dest_app_id) ==
    find_rule_last(rs, Len(rs), source_app_id, dest_app_id)

matches_rule(rs, source_app_id, dest_app_id) ==
    find_rule(rs, 1, source_app_id, dest_app_id)

\* Rule lists that rules::load can return at startup and that the settings
\* window installs through set_rules.
RuleLists ==
    { << Rule(NoneId, SomeId(id_T), "Block") >>,
      << Rule(SomeId(id_E), SomeId(id_t), "Notify"), Rule(NoneId, NoneId, "Block") >> }

\* ------------------------------------------------------------------ types
ClipboardEvent(id, name) == [source_app_id |-> id, source_app_name |-> name]
NoneEvent == [some |-> FALSE, v |-> ClipboardEvent(NoneId, NoneName)]
SomeEvent(e) == [some |-> TRUE, v |-> e]

PasteWarning(sid, sname, did, dname, b) ==
    [source_app_id |-> sid, source_app_name |-> sname,
     dest_app_id |-> did, dest_app_name |-> dname, blocked |-> b]
NoneWarning ==
    [some |-> FALSE, v |-> PasteWarning(NoneId, NoneName, NoneId, NoneName, FALSE)]
SomeWarning(w) == [some |-> TRUE, v |-> w]

NoneKey == [some |-> FALSE, v |-> <<NoneId, NoneId>>]
SomeKey(s, d) == [some |-> TRUE, v |-> <<s, d>>]

\* ------------------------------------------------------------------ state
VARIABLES
    \* operating system
    platform,           \* which clipboard module the build compiled in
    frontmost,          \* the application holding keyboard focus
    change_count,       \* NSPasteboard.changeCount / clipboard sequence number
    accessibility,      \* AXIsProcessTrusted()
    \* Arc<Mutex<ClipboardState>>
    last_copy_source, enabled, rules, blocking_active,
    poisoned,           \* the mutex is poisoned: lock() returns Err
    \* monitor thread
    pc, last_change_count, last_frontmost_id, last_warned, block_active,
    current_id, current_name, is_enabled, switched, source, matched,
    ax_trusted, exit,
    \* mpsc channel monitor -> blocker
    chan,
    \* blocker thread
    wpc, active, hook, BLOCK_PASTE,
    taps,               \* native listeners installed and not yet released
    tx_alive,           \* the Sender end of the channel has not been dropped
    \* the last two control messages the blocker thread processed, each with
    \* the listener state it left behind, and the last keystroke the
    \* interception callback was given
    processed, key_out,
    \* the last set_rules call: its argument, what rules::save did, its result
    rules_call,
    \* what the current pass emitted and sent
    out,
    \* history: what the current pass started from and met (note), the last
    \* control message sent, whether an Arm is outstanding at the worker, the
    \* pairs warned and the pair last warned since the last clipboard change
    note, lastSent, armLive, warnedPairs, prevWarned,
    \* history: the dedup key as it was when the last clipboard change was seen
    warned_before

envVars == <<platform, frontmost, change_count, accessibility>>
guardVars == <<last_copy_source, enabled, rules, blocking_active, poisoned>>
pollerVars == <<pc, last_change_count, last_frontmost_id, last_warned,
                block_active, current_id, current_name, is_enabled, switched,
                source, matched, ax_trusted, exit>>
workerVars == <<wpc, active, hook, BLOCK_PASTE, taps, tx_alive, processed, key_out>>
histVars == <<out, note, lastSent, armLive, warnedPairs, prevWarned, warned_before>>
vars == <<envVars, guardVars, pollerVars, chan, workerVars, histVars, rules_call>>

\* ---------------------------------------------------------- OS primitives
\* get_frontmost_app: macOS reports bundle id and localized name as they
\* are; Windows lower-cases the executable file name.
sample_app(p, app) ==
    IF p = "windows" /\ app.id.some
    THEN [id |-> SomeId(to_ascii_lowercase(app.id.v)), name |-> app.name]
    ELSE [id |-> app.id, name |-> app.name]

get_frontmost_app == sample_app(platform, frontmost)

get_pasteboard_change_count == change_count

\* check_accessibility: AXIsProcessTrusted on macOS, true elsewhere
check_accessibility == IF platform = "macos" THEN accessibility ELSE TRUE

\* a same-app test that lets every pair through
is_cross_app_always(src, dest_app_id) == TRUE

\* a same-app test that compares the ids byte for byte
is_cross_app_exact(src, dest_app_id) ==
    IF src.source_app_id.some THEN src.source_app_id.v # dest_app_id ELSE TRUE

is_cross_app(src, dest_app_id) ==
    IF src.source_app_id.some
    THEN ~eq_ignore_ascii_case(src.source_app_id.v, dest_app_id)
    ELSE TRUE

\* ------------------------------------------------------- lib.rs commands
get_clipboard_source == IF poisoned THEN NoneEvent ELSE last_copy_source
\* a get_enabled that answers from the state whatever lock() returned
get_enabled_unguarded == enabled

get_enabled == IF poisoned THEN TRUE ELSE enabled
get_rules == IF poisoned THEN <<>> ELSE rules

EmptyOut ==
    [changed |-> FALSE, event |-> NoneEvent, sent |-> <<>>,
     warning |-> NoneWarning, body |-> "none"]

EmptyNote ==
    [was_active |-> FALSE, repeated |-> FALSE, same_as_prev |-> FALSE,
     while_disabled |-> FALSE]

\* no keystroke seen yet
EmptyKey ==
    [seen |-> FALSE, paste_key |-> FALSE, modifier |-> FALSE, down |-> FALSE,
     armed |-> FALSE, last |-> "none", consumed |-> FALSE]

\* no set_rules call made yet
NoCall == [made |-> FALSE, arg |-> <<>>, saved |-> FALSE, ret |-> "none", before |-> <<>>]

\* the state after run() built the ClipboardState (lib.rs 330-335) from the
\* rule list rules::load returned and start_clipboard_monitor spawned both
\* threads
InitState(rule_lists) ==
    /\ platform \in Platforms
    /\ frontmost \in OsApps(platform)
    /\ change_count = 0
    /\ accessibility \in (IF platform = "macos" THEN BOOLEAN ELSE {TRUE})
    /\ last_copy_source = NoneEvent
    /\ enabled = TRUE
    /\ rules \in rule_lists
    /\ blocking_active = FALSE
    /\ poisoned = FALSE
    /\ pc = "sleep"
    /\ last_change_count = 0
    /\ last_frontmost_id = NoneId
    /\ last_warned = NoneKey
    /\ block_active = FALSE
    /\ current_id = NoneId
    /\ current_name = NoneName
    /\ is_enabled = TRUE
    /\ source = NoneEvent
    /\ switched = FALSE
    /\ matched = NoneRule
    /\ ax_trusted = FALSE
    /\ exit = "start"
    /\ chan = <<>>
    /\ wpc = IF platform = "macos" THEN "loop" ELSE "start"
    /\ active = FALSE
    /\ hook = FALSE
    /\ BLOCK_PASTE = FALSE
    /\ taps = 0
    /\ tx_alive = TRUE
    /\ processed = <<>>
    /\ key_out = EmptyKey
    /\ rules_call = NoCall
    /\ out = EmptyOut
    /\ note = EmptyNote
    /\ lastSent = "none"
    /\ armLive = FALSE
    /\ warnedPairs = {}
    /\ prevWarned = NoneKey
    /\ warned_before = NoneKey

Init == InitState(RuleLists)

\* ------------------------------------------------------------ environment
\* The monitor reads the operating system at three places only: the
\* frontmost application and the change count at the top of a pass (lines
\* 235, 238) and AXIsProcessTrusted in the Block arm (line 346).  An OS
\* event that falls inside a pass is seen exactly as if it had fallen in the
\* sleep before that pass (permission) or after it (focus, clipboard), so
\* the OS moves while the monitor sleeps.

\* the user brings another application to the front
SwitchApp ==
    /\ pc = "sleep"
    /\ \E a \in OsApps(platform) \ {frontmost} : frontmost' = a
    /\ UNCHANGED <<platform, change_count, accessibility>>
    /\ UNCHANGED <<guardVars, pollerVars, chan, workerVars, histVars, rules_call>>

\* some process writes to the clipboard
Copy ==
    /\ pc = "sleep"
    /\ change_count < MaxCopies
    /\ change_count' = change_count + 1
    /\ UNCHANGED <<platform, frontmost, accessibility>>
    /\ UNCHANGED <<guardVars, pollerVars, chan, workerVars, histVars, rules_call>>

\* the user grants or revokes the Accessibility permission (macOS)
SetAccessibility ==
    /\ pc = "sleep"
    /\ platform = "macos"
    /\ accessibility' = ~accessibility
    /\ UNCHANGED <<platform, frontmost, change_count>>
    /\ UNCHANGED <<guardVars, pollerVars, chan, workerVars, histVars, rules_call>>

\* --------------------------------------------------------- control surface
\* a set_enabled that also clears the shared blocking flag
set_enabled_drops_block(b) ==
    /\ enabled' = IF poisoned THEN enabled ELSE b
    /\ blocking_active' = FALSE
    /\ warnedPairs' = {}
    /\ UNCHANGED <<last_copy_source, rules, poisoned>>
    /\ UNCHANGED <<envVars, pollerVars, chan, workerVars, out, note, lastSent, armLive,
                   prevWarned, warned_before, rules_call>>

set_enabled(b) ==
    /\ enabled' = IF poisoned THEN enabled ELSE b
    /\ warnedPairs' = {}
    /\ UNCHANGED <<last_copy_source, rules, blocking_active, poisoned>>
    /\ UNCHANGED <<envVars, pollerVars, chan, workerVars, out, note, lastSent, armLive,
                   prevWarned, warned_before, rules_call>>

SetEnabled == \E b \in BOOLEAN : set_enabled(b)

\* the "toggle" arm of the tray's on_menu_event
TrayToggle ==
    /\ enabled' = IF poisoned THEN enabled ELSE ~enabled
    /\ warnedPairs' = {}
    /\ UNCHANGED <<last_copy_source, rules, blocking_active, poisoned>>
    /\ UNCHANGED <<envVars, pollerVars, chan, workerVars, out, note, lastSent, armLive,
                   prevWarned, warned_before, rules_call>>

\* rules::save may fail; the ? operator then returns before the swap
set_rules(new_rules, save_ok) ==
    /\ rules' = IF save_ok /\ ~poisoned THEN new_rules ELSE rules
    /\ warnedPairs' = {}
    /\ UNCHANGED <<last_copy_source, enabled, blocking_active, poisoned>>
    /\ UNCHANGED <<envVars, pollerVars, chan, workerVars, out, note, lastSent, armLive,
                   prevWarned, warned_before>>

\* the settings window stores one of the rule lists; the result of the
\* command is not part of the program's state
SetRulesFrom(rule_lists) ==
    \E rs \in rule_lists, ok \in BOOLEAN :
        set_rules(rs, ok) /\ UNCHANGED rules_call

SetRules == SetRulesFrom(RuleLists)

\* rules.rs 59-68: save fails without an app data directory and when the
\* directory or the file cannot be written
save(has_dir, write_ok) == IF has_dir /\ write_ok THEN "Ok" ELSE "Err"

\* lib.rs 80, 84: the ? hands the error of save to the caller, Ok(()) otherwise
set_rules_result(save_result) == IF save_result = "Ok" THEN "Ok" ELSE "Err"

\* set_rules with its argument, the outcome of save and its result on record
SetRulesCall ==
    \E rs \in RuleLists, has_dir \in BOOLEAN, write_ok \in BOOLEAN :
        LET saved == save(has_dir, write_ok)
        IN /\ set_rules(rs, saved = "Ok")
           /\ rules_call' = [made |-> TRUE, arg |-> rs, saved |-> (saved = "Ok"),
                             ret |-> set_rules_result(saved), before |-> rules]

\* ---------------------------------------------------------- monitor thread
\* One pass of the loop body is three steps, cut where the thread takes the
\* ClipboardState lock to read a field another thread writes (enabled at
\* line 264, rules at line 313).  Each send on the channel is taken together
\* with the write of blocking_active that follows it.

\* clipboard.rs 239: current_count != last_change_count
clipboard_changed(current_count) == current_count # last_change_count

\* a change branch that keeps the dedup key
warned_after_change_kept(changed) == last_warned

\* clipboard.rs 241: last_warned = None inside the change branch
warned_after_change(changed) == IF changed THEN NoneKey ELSE last_warned

\* a change branch that leaves the block armed
disarm_on_change_never(changed) == FALSE

\* clipboard.rs 244: the block is dropped when the clipboard changed
disarm_on_change(changed) == changed /\ block_active

\* an event built from the id of the previous pass
copy_event_stale(id, name) == ClipboardEvent(last_frontmost_id, name)

\* clipboard.rs 252-255: the event is built from this pass's sample
copy_event(id, name) == ClipboardEvent(id, name)

\* a disarm that forgets the shared flag
clear_flag_forgotten(disarm) == blocking_active

\* clipboard.rs 247-249, 269-271, 289-291: s.blocking_active = false
clear_flag(disarm) == IF disarm /\ ~poisoned THEN FALSE ELSE blocking_active

\* a Block arm whose flag write does not depend on the send
set_flag_always(arm) == ~poisoned

\* clipboard.rs 350-352: s.blocking_active = true
set_flag(arm) == IF arm /\ ~poisoned THEN TRUE ELSE blocking_active

\* the Receiver lives as long as run_blocker_thread has not returned
rx_alive == wpc \in {"loop", "getmsg", "start"}

\* blocker_tx.send: queues the message; with the Receiver dropped it returns
\* Err, which every call site discards (let _ =)
send(msg) == IF rx_alive THEN Append(chan, msg) ELSE chan

\* clipboard.rs 233-262: sleep, sample the frontmost app and the change count
sample_pass ==
    /\ pc = "sleep"
    /\ Len(chan) < MaxChan
    /\ LET fg == get_frontmost_app
           changed == clipboard_changed(get_pasteboard_change_count)
           disarm == disarm_on_change(changed)
           event == copy_event(fg.id, fg.name)
       IN /\ current_id' = fg.id
          /\ current_name' = fg.name
          /\ last_change_count' = get_pasteboard_change_count
          /\ last_warned' = warned_after_change(changed)
          /\ block_active' = IF disarm THEN FALSE ELSE block_active
          /\ blocking_active' = clear_flag(disarm)
          /\ chan' = IF disarm THEN send("Disable") ELSE chan
          /\ lastSent' = IF disarm THEN "Disable" ELSE lastSent
          /\ last_copy_source' = IF changed /\ ~poisoned
                                 THEN SomeEvent(event) ELSE last_copy_source
          /\ out' = [changed |-> changed,
                     event |-> IF changed THEN SomeEvent(event) ELSE NoneEvent,
                     sent |-> IF disarm THEN <<"Disable">> ELSE <<>>,
                     warning |-> NoneWarning, body |-> "none"]
          /\ note' = [EmptyNote EXCEPT !.was_active = block_active]
          /\ warnedPairs' = IF changed THEN {} ELSE warnedPairs
          /\ prevWarned' = IF changed THEN NoneKey ELSE prevWarned
    /\ pc' = "evaluate"
    /\ is_enabled' = TRUE
    /\ switched' = FALSE
    /\ source' = NoneEvent
    /\ matched' = NoneRule
    /\ ax_trusted' = FALSE
    /\ exit' = "running"
    /\ UNCHANGED <<last_frontmost_id, enabled, rules, poisoned, armLive, rules_call>>
    /\ UNCHANGED <<envVars, workerVars>>

PollerSample == sample_pass /\ UNCHANGED warned_before

\* the same step with the dedup key it found put on record when it sees a
\* clipboard change
PollerSampleSeen ==
    /\ sample_pass
    /\ warned_before' = IF out'.changed THEN last_warned ELSE warned_before

\* a switch test that does not count a change to an unresolved id
app_switched_concrete_only(cur) == cur.some /\ cur # last_frontmost_id

\* a switch test that is always true
app_switched_always(cur) == TRUE

\* clipboard.rs 278: current_id != last_frontmost_id
app_switched(cur) == cur # last_frontmost_id

\* a disarm that is not done on a switch
should_disarm_disabled_only(en, sw) == block_active /\ ~en

\* a disarm that is done on a switch only
should_disarm_switch_only(en, sw) == block_active /\ sw

\* a disarm that does not look at block_active
should_disarm_always(en, sw) == ~en \/ sw

\* clipboard.rs 266, 286: the block is dropped when the guard is disabled
\* and when the frontmost application changed
should_disarm(en, sw) == block_active /\ (~en \/ sw)

\* a pass that does not look at the enabled flag
evaluate_exit_ignores_enabled(en, sw, src) ==
    IF ~sw THEN "noswitch"
    ELSE IF ~current_id.some THEN "nodest"
    ELSE IF ~src.some THEN "nosource"
    ELSE IF ~is_cross_app(src.v, current_id.v) THEN "sameapp"
    ELSE "running"

\* a pass that goes on to the rules without a copy source
evaluate_exit_without_source(en, sw, src) ==
    IF ~en THEN "disabled"
    ELSE IF ~sw THEN "noswitch"
    ELSE IF ~current_id.some THEN "nodest"
    ELSE IF ~is_cross_app(src.v, current_id.v) THEN "sameapp"
    ELSE "running"

\* clipboard.rs 265-310: where the pass leaves the loop body, "running" when
\* it goes on to the rules
evaluate_exit(en, sw, src) ==
    IF ~en THEN "disabled"
    ELSE IF ~sw THEN "noswitch"
    ELSE IF ~current_id.some THEN "nodest"
    ELSE IF ~src.some THEN "nosource"
    ELSE IF ~is_cross_app(src.v, current_id.v) THEN "sameapp"
    ELSE "running"

\* clipboard.rs 264-310: the enabled flag, the switch, the copy source
PollerEvaluate ==
    /\ pc = "evaluate"
    /\ Len(chan) < MaxChan
    /\ LET en == IF poisoned THEN TRUE ELSE enabled
           sw == app_switched(current_id)
           src == IF poisoned THEN NoneEvent ELSE last_copy_source
           disarm == should_disarm(en, sw)
           where == evaluate_exit(en, sw, src)
       IN /\ is_enabled' = en
          /\ switched' = (en /\ sw)
          /\ last_frontmost_id' = current_id
          /\ block_active' = IF disarm THEN FALSE ELSE block_active
          /\ blocking_active' = clear_flag(disarm)
          /\ chan' = IF disarm THEN send("Disable") ELSE chan
          /\ lastSent' = IF disarm THEN "Disable" ELSE lastSent
          /\ out' = IF disarm THEN [out EXCEPT !.sent = Append(@, "Disable")] ELSE out
          /\ source' = IF where \in {"sameapp", "running"} THEN src ELSE source
          /\ exit' = where
          /\ pc' = IF where = "running" THEN "resolve" ELSE "done"
    /\ UNCHANGED <<last_change_count, last_warned, current_id, current_name,
                   matched, ax_trusted>>
    /\ UNCHANGED <<last_copy_source, enabled, rules, poisoned, rules_call>>
    /\ UNCHANGED <<note, armLive, warnedPairs, prevWarned, warned_before>>
    /\ UNCHANGED <<envVars, workerVars>>

\* a Notify arm that arms the blocker as well
resolve_action_arms_notify(action, trusted) ==
    IF action = "Notify" THEN [body |-> "notify", blocked |-> FALSE, arm |-> TRUE]
    ELSE IF platform = "macos" /\ ~trusted
         THEN [body |-> "degraded", blocked |-> FALSE, arm |-> FALSE]
         ELSE [body |-> "blocked", blocked |-> TRUE, arm |-> TRUE]

\* a Block arm that does not ask for the permission
resolve_action_unchecked(action, trusted) ==
    IF action = "Notify" THEN [body |-> "notify", blocked |-> FALSE, arm |-> FALSE]
    ELSE [body |-> "blocked", blocked |-> TRUE, arm |-> TRUE]

\* clipboard.rs 337-368 / clipboard_windows.rs 294-310: the match on
\* matched.action.  The macOS build asks AXIsProcessTrusted; the Windows
\* build arms without asking.  Gives the notification body and blocked.
resolve_action(action, trusted) ==
    IF action = "Notify" THEN [body |-> "notify", blocked |-> FALSE, arm |-> FALSE]
    ELSE IF platform = "macos" /\ ~trusted
         THEN [body |-> "degraded", blocked |-> FALSE, arm |-> FALSE]
         ELSE [body |-> "blocked", blocked |-> TRUE, arm |-> TRUE]

\* a pass without the dedup test
already_warned_never(warn_key) == FALSE

\* the dedup test of clipboard.rs 324-329
already_warned(warn_key) == last_warned = warn_key

\* clipboard.rs 313-385: rules, dedup, action, notification, paste-warning
PollerResolve ==
    /\ pc = "resolve"
    /\ Len(chan) < MaxChan
    /\ LET rs == IF poisoned THEN <<>> ELSE rules
           m == matches_rule(rs, source.v.source_app_id, current_id.v)
           warn_key == SomeKey(source.v.source_app_id, current_id)
           where == IF ~m.some THEN "nomatch"
                    ELSE IF already_warned(warn_key) THEN "dedup"
                    ELSE "resolved"
           trusted == check_accessibility
           r == resolve_action(m.v.action, trusted)
           arm == where = "resolved" /\ r.arm
           warning == PasteWarning(source.v.source_app_id, source.v.source_app_name,
                                   current_id, current_name, r.blocked)
       IN /\ matched' = m
          /\ exit' = where
          /\ last_warned' = IF where = "resolved" THEN warn_key ELSE last_warned
          /\ ax_trusted' = IF where = "resolved" /\ m.v.action = "Block"
                           THEN trusted ELSE ax_trusted
          /\ block_active' = IF arm THEN TRUE ELSE block_active
          /\ blocking_active' = set_flag(arm)
          /\ chan' = IF arm THEN send("Enable") ELSE chan
          /\ lastSent' = IF arm THEN "Enable" ELSE lastSent
          /\ armLive' = IF arm THEN TRUE ELSE armLive
          /\ out' = IF where = "resolved"
                    THEN [out EXCEPT !.warning = SomeWarning(warning),
                                     !.body = r.body,
                                     !.sent = IF arm THEN Append(@, "Enable") ELSE @]
                    ELSE out
          /\ note' = IF where = "resolved"
                     THEN [note EXCEPT !.repeated = warn_key.v \in warnedPairs,
                                       !.same_as_prev = (prevWarned = warn_key),
                                       !.while_disabled = ~enabled]
                     ELSE note
          /\ warnedPairs' = IF where = "resolved"
                            THEN warnedPairs \cup {warn_key.v} ELSE warnedPairs
          /\ prevWarned' = IF where = "resolved" THEN warn_key ELSE prevWarned
    /\ pc' = "done"
    /\ UNCHANGED <<last_change_count, last_frontmost_id, current_id, current_name,
                   is_enabled, switched, source>>
    /\ UNCHANGED <<last_copy_source, enabled, rules, poisoned, rules_call, warned_before>>
    /\ UNCHANGED <<envVars, workerVars>>

\* clipboard.rs 232-233: the pass is over (continue, or the end of the loop
\* body); its locals go out of scope and the thread sleeps POLL_INTERVAL_MS
PollerLoop ==
    /\ pc = "done"
    /\ pc' = "sleep"
    /\ current_id' = NoneId
    /\ current_name' = NoneName
    /\ is_enabled' = TRUE
    /\ switched' = FALSE
    /\ source' = NoneEvent
    /\ matched' = NoneRule
    /\ ax_trusted' = FALSE
    /\ exit' = "start"
    /\ out' = EmptyOut
    /\ note' = EmptyNote
    /\ UNCHANGED <<last_change_count, last_frontmost_id, last_warned, block_active>>
    /\ UNCHANGED <<lastSent, armLive, warnedPairs, prevWarned, warned_before, rules_call>>
    /\ UNCHANGED <<envVars, guardVars, chan, workerVars>>

\* ----------------------------------------------------------- blocker thread
\* the history of "an Arm is outstanding": a Disable taken off the channel
\* was sent after the latest Enable exactly when no Enable is queued behind it
ArmLiveAfter(msg, rest) ==
    IF msg = "Disable" /\ \A i \in 1..Len(rest) : rest[i] # "Enable"
    THEN FALSE ELSE armLive

\* the record of the last two messages processed
Logged(msg, armed_after) ==
    LET e == [msg |-> msg, armed |-> armed_after]
    IN IF Len(processed) < 2 THEN Append(processed, e) ELSE <<processed[2], e>>

LastProcessed == IF processed = <<>> THEN "none" ELSE processed[Len(processed)].msg

\* interception is switched on: the tap exists (macOS), the flag the hook
\* reads is set (Windows)
Armed == IF platform = "macos" THEN active ELSE BLOCK_PASTE

\* an Enable arm that creates a tap without looking at active
on_enable_unguarded(act, n, created) ==
    IF created THEN [active |-> TRUE, taps |-> n + 1]
    ELSE [active |-> act, taps |-> n]

\* clipboard.rs 109-136: Enable.  Nothing is done when a tap exists;
\* CGEventTapCreate or CFMachPortCreateRunLoopSource may return null, and
\* then no port is kept.
on_enable(act, n, created) ==
    IF act THEN [active |-> TRUE, taps |-> n]
    ELSE IF created THEN [active |-> TRUE, taps |-> n + 1]
    ELSE [active |-> FALSE, taps |-> n]

\* a teardown that forgets the handle without releasing it
teardown_tap_flag_only(act, n) == [active |-> FALSE, taps |-> n]

\* clipboard.rs 156-167: active.take(), disable, remove, invalidate, release
teardown_tap(act, n) ==
    IF act THEN [active |-> FALSE, taps |-> n - 1]
    ELSE [active |-> FALSE, taps |-> n]

\* clipboard.rs 108-139: recv_timeout returns a message.  (A Timeout changes
\* nothing: the thread runs the CFRunLoop for 50 ms when a tap exists and
\* comes back to recv_timeout.)
recv_timeout_message ==
    /\ platform = "macos"
    /\ wpc = "loop"
    /\ chan # <<>>
    /\ LET msg == Head(chan)
       IN /\ chan' = Tail(chan)
          /\ armLive' = ArmLiveAfter(msg, Tail(chan))
          /\ \E created \in BOOLEAN :
                LET after == IF msg = "Enable"
                             THEN on_enable(active, taps, created)
                             ELSE teardown_tap(active, taps)
                IN /\ active' = after.active
                   /\ taps' = after.taps
    /\ UNCHANGED <<wpc, hook, BLOCK_PASTE, tx_alive, key_out>>
    /\ UNCHANGED <<envVars, guardVars, pollerVars, out, note, lastSent, warnedPairs,
                   prevWarned, warned_before, rules_call>>

WorkerRecvMac == recv_timeout_message /\ UNCHANGED processed

\* the same step with the message and the state it left put on record
WorkerRecvMacSeen == recv_timeout_message /\ processed' = Logged(Head(chan), active')

\* clipboard.rs 141-144: the queue is empty and the Sender was dropped
WorkerDisconnectedMac ==
    /\ platform = "macos"
    /\ wpc = "loop"
    /\ chan = <<>>
    /\ ~tx_alive
    /\ active' = teardown_tap(active, taps).active
    /\ taps' = teardown_tap(active, taps).taps
    /\ wpc' = "done"
    /\ UNCHANGED <<hook, BLOCK_PASTE, tx_alive, processed, key_out>>
    /\ UNCHANGED <<envVars, guardVars, pollerVars, chan, histVars, rules_call>>

\* clipboard_windows.rs 148-154: SetWindowsHookExW at thread start; the
\* thread returns when it fails, which drops the Receiver and what is queued
WorkerInstallHook ==
    /\ platform = "windows"
    /\ wpc = "start"
    /\ \E installed \in BOOLEAN :
          /\ hook' = installed
          /\ taps' = IF installed THEN taps + 1 ELSE taps
          /\ wpc' = IF installed THEN "loop" ELSE "failed"
          /\ chan' = IF installed THEN chan ELSE <<>>
    /\ UNCHANGED <<active, BLOCK_PASTE, tx_alive, processed, key_out>>
    /\ UNCHANGED <<envVars, guardVars, pollerVars, histVars, rules_call>>

\* clipboard_windows.rs 162-165: the value stored in BLOCK_PASTE
on_command(cmd) == cmd = "Enable"

\* clipboard_windows.rs 161-166: one iteration of while let Ok(cmd) = try_recv()
try_recv_command ==
    /\ platform = "windows"
    /\ wpc = "loop"
    /\ chan # <<>>
    /\ LET cmd == Head(chan)
       IN /\ chan' = Tail(chan)
          /\ armLive' = ArmLiveAfter(cmd, Tail(chan))
          /\ BLOCK_PASTE' = on_command(cmd)
    /\ UNCHANGED <<wpc, active, hook, taps, tx_alive, key_out>>
    /\ UNCHANGED <<envVars, guardVars, pollerVars, out, note, lastSent, warnedPairs,
                   prevWarned, warned_before, rules_call>>

WorkerTryRecv == try_recv_command /\ UNCHANGED processed

\* the same step with the command and the flag it left put on record
WorkerTryRecvSeen == try_recv_command /\ processed' = Logged(Head(chan), BLOCK_PASTE')

\* clipboard_windows.rs 161, 172: try_recv returns Err (Empty and Disconnected
\* alike end the while let) and the thread blocks in GetMessageW
WorkerBlock ==
    /\ platform = "windows"
    /\ wpc = "loop"
    /\ chan = <<>>
    /\ wpc' = "getmsg"
    /\ UNCHANGED <<active, hook, BLOCK_PASTE, taps, tx_alive, processed, key_out>>
    /\ UNCHANGED <<envVars, guardVars, pollerVars, chan, histVars, rules_call>>

\* clipboard_windows.rs 172-181: a message reaches the thread's queue.
\* GetMessageW returns > 0 and the loop goes round, or <= 0 (WM_QUIT, error)
\* and the thread clears BLOCK_PASTE, unhooks and returns.
WorkerGetMessage ==
    /\ platform = "windows"
    /\ wpc = "getmsg"
    /\ \E quit \in BOOLEAN :
          /\ wpc' = IF quit THEN "done" ELSE "loop"
          /\ BLOCK_PASTE' = IF quit THEN FALSE ELSE BLOCK_PASTE
          /\ hook' = IF quit THEN FALSE ELSE hook
          /\ taps' = IF quit THEN taps - 1 ELSE taps
          /\ chan' = IF quit THEN <<>> ELSE chan
    /\ UNCHANGED <<active, tx_alive, processed, key_out>>
    /\ UNCHANGED <<envVars, guardVars, pollerVars, histVars, rules_call>>

\* ------------------------------------------------------------ specification
Next ==
    \/ SwitchApp
    \/ Copy
    \/ SetAccessibility
    \/ SetEnabled
    \/ TrayToggle
    \/ SetRules
    \/ PollerSample
    \/ PollerEvaluate
    \/ PollerResolve
    \/ PollerLoop
    \/ WorkerRecvMac
    \/ WorkerInstallHook
    \/ WorkerTryRecv
    \/ WorkerBlock
    \/ WorkerGetMessage

Spec == Init /\ [][Next]_vars

\* ------------------------------------------------- interception callbacks
V_KEYCODE == 9
CG_EVENT_FLAG_MASK_COMMAND == 1048576
VK_V == 86

\* clipboard.rs 81-95: TRUE when the callback returns null (the event is
\* dropped); flags & CG_EVENT_FLAG_MASK_COMMAND is bit 20 of flags
tap_callback(keycode, flags) ==
    keycode = V_KEYCODE /\ (flags \div CG_EVENT_FLAG_MASK_COMMAND) % 2 = 1

\* a hook procedure that does not read BLOCK_PASTE
keyboard_hook_proc_unflagged(code, wparam, vkCode, ctrl) ==
    /\ code >= 0
    /\ wparam \in {"WM_KEYDOWN", "WM_SYSKEYDOWN"} /\ vkCode = VK_V
    /\ ctrl < 0

\* clipboard_windows.rs 124-137: TRUE when the procedure returns LRESULT(1)
\* (the keystroke is swallowed) instead of calling CallNextHookEx
keyboard_hook_proc(code, wparam, vkCode, ctrl) ==
    /\ code >= 0 /\ BLOCK_PASTE
    /\ wparam \in {"WM_KEYDOWN", "WM_SYSKEYDOWN"} /\ vkCode = VK_V
    /\ ctrl < 0

\* The user presses or releases a key.  macOS calls tap_callback for key-down
\* events while a tap exists (the tap is created with CG_EVENT_KEY_DOWN_MASK,
\* clipboard.rs 114-121); Windows calls keyboard_hook_proc for every keyboard
\* event while the hook is installed.  Flags: shift is bit 17, command bit 20.
Keystroke ==
    /\ IF platform = "macos"
       THEN \E keycode \in {V_KEYCODE, 8}, flags \in {0, 131072, 1048576, 1179648},
               down \in BOOLEAN :
               key_out' = [seen |-> TRUE,
                           paste_key |-> (keycode = V_KEYCODE),
                           modifier |-> (flags \in {1048576, 1179648}),
                           down |-> down,
                           armed |-> Armed,
                           last |-> LastProcessed,
                           consumed |-> (active /\ down /\ tap_callback(keycode, flags))]
       ELSE \E code \in {-1, 0}, wparam \in {"WM_KEYDOWN", "WM_SYSKEYDOWN", "WM_KEYUP"},
               vkCode \in {VK_V, 67}, ctrl \in {-32768, 0} :
               key_out' = [seen |-> TRUE,
                           paste_key |-> (vkCode = VK_V),
                           modifier |-> (ctrl = -32768),
                           down |-> (wparam # "WM_KEYUP"),
                           armed |-> Armed,
                           last |-> LastProcessed,
                           consumed |-> (hook /\ keyboard_hook_proc(code, wparam, vkCode, ctrl))]
    /\ UNCHANGED <<wpc, active, hook, BLOCK_PASTE, taps, tx_alive, processed>>
    /\ UNCHANGED <<envVars, guardVars, pollerVars, chan, histVars, rules_call>>

\* ------------------------------------------- the blocker thread on its own
\* The Sender of the channel puts any control message on it, in any order,
\* and may be dropped; the blocker thread and the keyboard do the rest.
ControlSend ==
    /\ tx_alive
    /\ Len(chan) < MaxChan
    /\ \E msg \in {"Enable", "Disable"} : chan' = send(msg)
    /\ UNCHANGED <<envVars, guardVars, pollerVars, workerVars, histVars, rules_call>>

\* the thread that owns blocker_tx ends
DropSender ==
    /\ tx_alive
    /\ tx_alive' = FALSE
    /\ UNCHANGED <<wpc, active, hook, BLOCK_PASTE, taps, processed, key_out>>
    /\ UNCHANGED <<envVars, guardVars, pollerVars, chan, histVars, rules_call>>

NextWorker ==
    \/ ControlSend
    \/ DropSender
    \/ Keystroke
    \/ WorkerRecvMacSeen
    \/ WorkerDisconnectedMac
    \/ WorkerInstallHook
    \/ WorkerTryRecvSeen
    \/ WorkerBlock
    \/ WorkerGetMessage

SpecWorker == Init /\ [][NextWorker]_vars

\* The blocker thread is scheduled: each of its own steps is taken when it
\* stays possible.  Nothing makes a message reach the Windows thread's queue
\* (the thread owns no window and nobody posts to it), so WorkerGetMessage
\* gets no fairness.
SpecWorkerLive ==
    /\ SpecWorker
    /\ WF_vars(WorkerRecvMacSeen)
    /\ WF_vars(WorkerDisconnectedMac)
    /\ WF_vars(WorkerInstallHook)
    /\ WF_vars(WorkerTryRecvSeen)
    /\ WF_vars(WorkerBlock)

\* ---------------------------------------------- the matcher on its own
\* Rules the settings window can author for the matcher specification
MatchRules ==
    { Rule(f, t, a) : f \in {NoneId, SomeId(id_E)},
                      t \in {NoneId, SomeId(id_T), SomeId(id_n)},
                      a \in RuleActions }

MatchRuleLists == UNION { [1..n -> MatchRules] : n \in 0..MaxRules }

\* Single rules over present and absent ids and display names
PatternRules ==
    { RuleNamed(f, fname, t, tname, a) :
          f \in {NoneId, SomeId(id_E), SomeId(id_n)},
          fname \in {NoneName, SomeName("term")},
          t \in {NoneId, SomeId(id_T), SomeId(id_e)},
          tname \in {NoneName, SomeName("editor")},
          a \in RuleActions }

PatternRuleLists == { <<r>> : r \in PatternRules }

\* The monitor stands at line 313 of a pass that detected a switch to a
\* resolved destination other than the copy source, with any rule list
\* installed.
InitAtRules(rule_lists) ==
    /\ platform \in Platforms
    /\ frontmost \in { a \in OsApps(platform) : a.id.some }
    /\ change_count = 1
    /\ accessibility \in (IF platform = "macos" THEN BOOLEAN ELSE {TRUE})
    /\ last_copy_source \in
          { SomeEvent(copy_event(sample_app(platform, a).id, a.name)) :
                a \in OsApps(platform) }
    /\ is_cross_app(last_copy_source.v, sample_app(platform, frontmost).id.v)
    /\ enabled = TRUE
    /\ rules \in rule_lists
    /\ blocking_active = FALSE
    /\ poisoned = FALSE
    /\ pc = "resolve"
    /\ last_change_count = 1
    /\ last_frontmost_id = sample_app(platform, frontmost).id
    /\ last_warned = NoneKey
    /\ block_active = FALSE
    /\ current_id = sample_app(platform, frontmost).id
    /\ current_name = frontmost.name
    /\ is_enabled = TRUE
    /\ switched = TRUE
    /\ source = last_copy_source
    /\ matched = NoneRule
    /\ ax_trusted = FALSE
    /\ exit = "running"
    /\ chan = <<>>
    /\ wpc = IF platform = "macos" THEN "loop" ELSE "start"
    /\ active = FALSE
    /\ hook = FALSE
    /\ BLOCK_PASTE = FALSE
    /\ taps = 0
    /\ tx_alive = TRUE
    /\ processed = <<>>
    /\ key_out = EmptyKey
    /\ rules_call = NoCall
    /\ out = EmptyOut
    /\ note = EmptyNote
    /\ lastSent = "none"
    /\ armLive = FALSE
    /\ warnedPairs = {}
    /\ prevWarned = NoneKey
    /\ warned_before = NoneKey

InitMatch == InitAtRules(MatchRuleLists)

NextMatch == PollerResolve

SpecMatch == InitMatch /\ [][NextMatch]_vars

\* the same pass with one rule installed
InitPattern == InitAtRules(PatternRuleLists)

SpecPattern == InitPattern /\ [][NextMatch]_vars

\* ------------------------------------------------------------- properties
SentArm == \E i \in 1..Len(out.sent) : out.sent[i] = "Enable"
SentDisarm == \E i \in 1..Len(out.sent) : out.sent[i] = "Disable"
WarnedPair == <<out.warning.v.source_app_id, out.warning.v.dest_app_id>>

C2_ArmIffBlockedWarning ==
    pc = "done" =>
        /\ SentArm <=> (out.warning.some /\ out.warning.v.blocked)
        /\ SentArm <=> (exit = "resolved" /\ matched.v.action = "Block" /\ ax_trusted)
        /\ SentArm => (blocking_active /\ block_active /\ lastSent = "Enable")
        /\ (blocking_active /\ (~note.was_active \/ SentDisarm)) => SentArm
        /\ out.warning.some <=> exit = "resolved"
        /\ exit = "resolved" =>
              /\ is_enabled /\ switched
              /\ current_id.some /\ source.some
              /\ is_cross_app(source.v, current_id.v)
              /\ matched.some
              /\ last_warned = SomeKey(source.v.source_app_id, current_id)

\* a pass that armed the blocker for a Block rule
C2_Witness ==
    /\ pc = "done"
    /\ SentArm
    /\ out.warning.some /\ out.warning.v.blocked
    /\ matched.v.action = "Block"
    /\ blocking_active

C4_SwitchDisarmsFirst ==
    /\ (pc = "resolve" /\ note.was_active) =>
          (out.sent = <<"Disable">> /\ ~blocking_active /\ ~block_active)
    /\ (pc = "done" /\ is_enabled /\ switched /\ note.was_active) =>
          /\ Len(out.sent) >= 1 /\ out.sent[1] = "Disable"
          /\ exit = "nomatch" =>
                /\ ~out.warning.some
                /\ ~SentArm
                /\ ~blocking_active /\ ~block_active
                /\ lastSent = "Disable"

\* focus left a blocked destination for an application no rule matches
C4_Witness ==
    /\ pc = "done" /\ is_enabled /\ switched /\ note.was_active
    /\ ~out.changed
    /\ exit = "nomatch"
    /\ out.sent = <<"Disable">>

\* C5: a pass that observes a changed clipboard counter while the block is
\* armed sends Disable, clears blocking_active and resets the dedup key in
\* that pass, whether or not the frontmost application changed.
C5_ClipboardChangeDisarms ==
    (pc \in {"evaluate", "resolve", "done"} /\ out.changed /\ note.was_active) =>
        /\ Len(out.sent) >= 1 /\ out.sent[1] = "Disable"
        /\ ~SentArm
        /\ ~blocking_active /\ ~block_active
        /\ last_warned = NoneKey

\* the clipboard changed under an armed block with the focus unchanged
C5_Witness ==
    /\ pc = "done" /\ out.changed /\ note.was_active
    /\ is_enabled /\ exit = "noswitch"

\* C6 (as stated): blocking_active is true exactly while an Arm has been sent
\* and no Disarm sent after it has been processed by the blocker thread.
C6_FlagTracksWorker == blocking_active <=> armLive

\* C6 (amended): between two steps of the monitor, blocking_active is true
\* exactly when the last control message the monitor sent is an Arm, whether
\* or not the blocker thread has processed it.
C6_FlagTracksLastSent ==
    /\ blocking_active <=> (lastSent = "Enable")
    /\ blocking_active <=> block_active

\* the blocker thread has taken the Arm off the channel, the flag is set
C6_Witness ==
    /\ blocking_active
    /\ lastSent = "Enable"
    /\ chan = <<>>
    /\ (active \/ BLOCK_PASTE)

\* C7: a pass whose sampled id equals the id of last_copy_source ignoring
\* ASCII case emits no PasteWarning and sends no Enable.
C7_SameAppExempt ==
    (/\ pc = "done"
     /\ last_copy_source.some
     /\ current_id.some = last_copy_source.v.source_app_id.some
     /\ eq_ignore_ascii_case(current_id.v, last_copy_source.v.source_app_id.v)) =>
        (~out.warning.some /\ ~SentArm)

\* a switch to an application whose id differs from the copy source in case
\* only, with a rule installed that matches every pair
C7_Witness ==
    /\ pc = "done" /\ switched /\ exit = "sameapp"
    /\ current_id.some
    /\ current_id # last_copy_source.v.source_app_id
    /\ \E i \in 1..Len(rules) :
          ~rules[i].from_app_id.some /\ ~rules[i].to_app_id.some

\* C8: a pass that sees a changed counter, enabled or not, overwrites
\* last_copy_source with the event built from the identity sampled in that
\* pass, emits clipboard-changed with it, and get_clipboard_source returns it.
C8_CopySourceReplaced ==
    (pc \in {"evaluate", "resolve", "done"} /\ out.changed) =>
        /\ last_copy_source = SomeEvent(ClipboardEvent(current_id, current_name))
        /\ out.event = last_copy_source
        /\ get_clipboard_source = last_copy_source

\* the copy source was replaced by another application while disabled
C8_Witness ==
    /\ pc = "done" /\ out.changed /\ exit = "disabled"
    /\ ~enabled
    /\ change_count = 2
    /\ current_id.some
    /\ get_clipboard_source.v.source_app_id = current_id

\* C9 (as stated): while enabled is false the monitor emits no PasteWarning
\* and sends no Enable.
C9_NothingWhileDisabled == ~note.while_disabled

\* C9 (amended): only a pass that read enabled = true goes on to the rules,
\* warns or arms; a pass that reads the flag after it was set to false does
\* neither.
C9_OnlyPassesThatReadEnabled ==
    /\ pc = "resolve" => is_enabled
    /\ (pc = "done" /\ (out.warning.some \/ SentArm)) => is_enabled
    /\ (pc = "done" /\ ~is_enabled) =>
          (exit = "disabled" /\ ~out.warning.some /\ ~SentArm /\ ~blocking_active)

\* a disabled pass on a destination that a rule matches
C9_Witness ==
    /\ pc = "done" /\ exit = "disabled" /\ ~enabled
    /\ current_id.some /\ last_copy_source.some
    /\ is_cross_app(last_copy_source.v, current_id.v)
    /\ matches_rule(rules, last_copy_source.v.source_app_id, current_id.v).some

\* the indices of the rules that match the pair of the current pass
MatchingIndices ==
    { i \in 1..Len(rules) :
        rule_matches(rules[i], source.v.source_app_id, current_id.v) }

\* C10: matches_rule returns the matching rule of lowest index, None when no
\* rule matches, and the monitor applies the action of that rule only.
C10_FirstMatchWins ==
    (pc = "done" /\ exit \in {"nomatch", "dedup", "resolved"}) =>
        IF MatchingIndices = {}
        THEN matched = NoneRule /\ exit = "nomatch" /\ ~out.warning.some
        ELSE LET first == CHOOSE i \in MatchingIndices :
                              \A j \in MatchingIndices : i <= j
             IN /\ matched = SomeRule(rules[first])
                /\ exit = "resolved"
                /\ out.warning.v.blocked =
                      (rules[first].action = "Block" /\ check_accessibility)
                /\ (out.body = "notify") = (rules[first].action = "Notify")
                /\ SentArm = (rules[first].action = "Block" /\ check_accessibility)

\* two rules of different actions match the pair
C10_Witness ==
    /\ pc = "done" /\ exit = "resolved"
    /\ \E i, j \in MatchingIndices :
          i < j /\ rules[i].action # rules[j].action

\* what the rule's patterns ask of a pair of ids, with case folded
FromPatternHolds(r, source_app_id) ==
    \/ ~r.from_app_id.some
    \/ /\ source_app_id.some
       /\ to_ascii_lowercase(source_app_id.v) = to_ascii_lowercase(r.from_app_id.v)

ToPatternHolds(r, dest_app_id) ==
    \/ ~r.to_app_id.some
    \/ to_ascii_lowercase(dest_app_id) = to_ascii_lowercase(r.to_app_id.v)

\* C11: a rule matches exactly when its from pattern is absent or equals a
\* present source id ignoring case, and its to pattern is absent or equals
\* the destination id ignoring case; the display names play no part.
C11_PatternsDecideByIdOnly ==
    (pc = "done" /\ exit \in {"nomatch", "resolved"}) =>
        /\ matched.some <=>
              (/\ FromPatternHolds(rules[1], source.v.source_app_id)
               /\ ToPatternHolds(rules[1], current_id.v))
        /\ matched.some => matched.v = rules[1]
        /\ (rules[1].from_app_id.some /\ ~source.v.source_app_id.some) => ~matched.some

\* a concrete from id met an absent source id on a destination the rule names,
\* with display names on the rule
C11_Witness ==
    /\ pc = "done" /\ exit = "nomatch"
    /\ rules[1].from_app_id.some /\ ~source.v.source_app_id.some
    /\ rules[1].to_app_id.some /\ ToPatternHolds(rules[1], current_id.v)
    /\ rules[1].from_app_name.some /\ rules[1].to_app_name.some

\* the blocker thread takes control message m off the channel and acts on it
Processes(m) ==
    /\ chan # <<>> /\ Head(chan) = m
    /\ chan' = Tail(chan)
    /\ wpc' = wpc

\* C12: the blocker thread never holds more than one installed listener;
\* an Arm processed while interception is on, and a Disarm processed while
\* it is off, leave the thread's state as it was.
C12_AtMostOneListener ==
    /\ [](taps \in {0, 1})
    /\ [](platform = "macos" => (active <=> taps = 1))
    /\ [][ /\ (Processes("Enable") /\ Armed) =>
                UNCHANGED <<active, hook, BLOCK_PASTE, taps, wpc>>
           /\ (Processes("Disable") /\ ~Armed) =>
                UNCHANGED <<active, hook, BLOCK_PASTE, taps, wpc>> ]_vars

\* two Arms were processed in a row and one listener is installed
C12_Witness ==
    /\ Len(processed) = 2
    /\ processed[1] = [msg |-> "Enable", armed |-> TRUE]
    /\ processed[2] = [msg |-> "Enable", armed |-> TRUE]
    /\ taps = 1 /\ Armed

\* C13: the callback swallows a keystroke only when interception is on, the
\* last control message processed being an Arm, and the keystroke is a
\* key-down of the paste key with the paste modifier held; everything else
\* is passed on.
C13_SwallowsOnlyArmedPaste ==
    (key_out.seen /\ key_out.consumed) =>
        /\ key_out.armed /\ key_out.last = "Enable"
        /\ key_out.paste_key /\ key_out.modifier /\ key_out.down

\* a paste keystroke was swallowed while armed
C13_Witness ==
    /\ key_out.seen /\ key_out.consumed
    /\ key_out.armed /\ key_out.last = "Enable"
    /\ key_out.paste_key /\ key_out.modifier /\ key_out.down

\* another key combination was passed on while armed
C13_PassedWhileArmed ==
    /\ key_out.seen /\ ~key_out.consumed /\ key_out.armed
    /\ key_out.down /\ key_out.modifier /\ ~key_out.paste_key

\* C14: a control message on the channel never waits for a native event:
\* the blocker thread is not blocked in its event pump while a message the
\* monitor sent is queued.
C14_NoMessageWaitsOnNativeEvent ==
    ~(wpc = "getmsg" /\ chan # <<>>)

C15_TapReleased ==
    /\ platform = "macos"
    /\ Len(processed) = 2
    /\ processed[1] = [msg |-> "Enable", armed |-> TRUE]
    /\ processed[2].msg = "Disable"
    /\ taps = 0 /\ ~active

\* the blocker thread has returned
WorkerExited == wpc \in {"done", "failed"}

\* C16: once the Sender is dropped the blocker thread eventually leaves its
\* loop, with no listener installed and interception off.
C16_ExitsOnDisconnect ==
    (~tx_alive) ~> (WorkerExited /\ taps = 0 /\ ~active /\ ~BLOCK_PASTE)

\* the last Enable processed found no listener to switch on: on macOS the
\* tap could not be created, on Windows the hook was never installed
InstallFailed ==
    \/ wpc = "failed"
    \/ /\ platform = "macos"
       /\ processed # <<>>
       /\ processed[Len(processed)] = [msg |-> "Enable", armed |-> FALSE]

\* C17: after a failed installation, and while the Sender exists, the blocker
\* thread is still running (its Receiver is alive, so a later Enable reaches
\* it), holds no listener and swallows nothing.
C17_WorkerSurvivesInstallFailure ==
    (InstallFailed /\ tx_alive) => (rx_alive /\ taps = 0 /\ ~Armed)

\* the macOS thread after a failed Enable followed by one that succeeded
C17_RetriedOnMac ==
    /\ platform = "macos"
    /\ processed = <<[msg |-> "Enable", armed |-> FALSE], [msg |-> "Enable", armed |-> TRUE]>>
    /\ taps = 1

\* ------------------------------------------------- the set_rules command
\* The settings window calls set_rules while the monitor and the blocker
\* thread run; the user switches applications and copies.
NextRules ==
    \/ SetRulesCall
    \/ SwitchApp
    \/ Copy
    \/ PollerSample
    \/ PollerEvaluate
    \/ PollerResolve
    \/ PollerLoop
    \/ WorkerRecvMac
    \/ WorkerInstallHook
    \/ WorkerTryRecv
    \/ WorkerBlock
    \/ WorkerGetMessage

SpecRules == Init /\ [][NextRules]_vars

\* C18: after a call of set_rules the in-memory list is the list passed in,
\* whether or not it could be persisted, and the call returned an error
\* exactly when persisting failed.
C18_ReplacedEvenWhenSaveFails ==
    rules_call.made =>
        /\ rules = rules_call.arg
        /\ rules_call.ret = "Err" <=> ~rules_call.saved

\* what the command does: the list is swapped only after a successful save
C18_ReplacedOnlyWhenSaved ==
    rules_call.made =>
        /\ rules = IF rules_call.saved THEN rules_call.arg ELSE rules_call.before
        /\ rules_call.ret = "Err" <=> ~rules_call.saved

\* ------------------------------------------------------ Notify-only rules
\* rules.rs 27-36: the well-known terminal emulators, cut down to the one the
\* model's desktop runs and one that is not installed ("k")
id_k == <<107>>
terminals == << <<id_t, "term">>, <<id_k, "kitty">> >>

\* rules.rs 37-46: one rule per terminal
default_rules ==
    [i \in 1..Len(terminals) |->
        RuleNamed(NoneId, NoneName, SomeId(terminals[i][1]), SomeName(terminals[i][2]),
                  "Notify")]

\* the default list (rules::load without a readable rules.json) and lists of
\* Notify rules the user authored
NotifyRuleLists ==
    { default_rules,
      << Rule(SomeId(id_E), SomeId(id_t), "Notify"), Rule(NoneId, NoneId, "Notify") >> }

InitNotify == InitState(NotifyRuleLists)

\* The whole program with set_rules installing Notify-only lists.  The
\* blocker thread's receive steps (WorkerRecvMac, WorkerTryRecv) take a
\* message off the channel; the poller is the only sender and the invariant
\* below has chan = <<>>, so they are never enabled here and are left out.
NextNotify ==
    \/ SwitchApp
    \/ Copy
    \/ SetAccessibility
    \/ SetEnabled
    \/ TrayToggle
    \/ SetRulesFrom(NotifyRuleLists)
    \/ PollerSample
    \/ PollerEvaluate
    \/ PollerResolve
    \/ PollerLoop
    \/ WorkerInstallHook
    \/ WorkerBlock
    \/ WorkerGetMessage

SpecNotify == InitNotify /\ [][NextNotify]_vars

AllNotify(rs) == \A i \in DOMAIN rs : rs[i].action = "Notify"

\* C19: the default rules are all Notify with a wildcard source and a concrete
\* destination id; while the installed list holds Notify rules only, no
\* Enable is ever sent, blocking_active (and the monitor's block_active, and
\* the interception itself) stays off and every PasteWarning has blocked = false.
C19_NotifyRulesNeverArm ==
    /\ \A i \in DOMAIN default_rules :
          /\ default_rules[i].action = "Notify"
          /\ ~default_rules[i].from_app_id.some
          /\ default_rules[i].to_app_id.some
    /\ AllNotify(rules) =>
          /\ lastSent = "none" /\ chan = <<>> /\ out.sent = <<>>
          /\ ~blocking_active /\ ~block_active /\ ~Armed
          /\ out.warning.some => ~out.warning.v.blocked

\* a pass under the default rules that emitted a warning
C19_Witness ==
    /\ rules = default_rules
    /\ pc = "done"
    /\ out.warning.some
    /\ out.warning.v.dest_app_id = SomeId(id_t)
    /\ ~out.warning.v.blocked

\* the monitor called blocker_tx.send in this step
Sends == Len(out'.sent) > Len(out.sent)
Sent == out'.sent[Len(out'.sent)]

\* C20: the control messages the monitor sends alternate Enable, Disable,
\* Enable, ... starting with Enable: an Enable is sent only when the last
\* message sent was not an Enable, a Disable only when it was an Enable; and
\* a pass that starts with the block armed and arms again has sent the
\* Disable first.
C20_MessagesAlternate ==
    /\ [](block_active <=> lastSent = "Enable")
    /\ []((pc = "done" /\ note.was_active /\ SentArm) => out.sent = <<"Disable", "Enable">>)
    /\ [][Sends =>
            /\ Len(out'.sent) = Len(out.sent) + 1
            /\ lastSent' = Sent
            /\ Sent = "Enable" => lastSent \in {"none", "Disable"}
            /\ Sent = "Disable" => lastSent = "Enable"]_vars

\* focus moved from one blocked destination straight to another, the
\* clipboard unchanged
C20_Witness ==
    /\ pc = "done" /\ note.was_active /\ ~out.changed
    /\ out.sent = <<"Disable", "Enable">>
    /\ out.warning.some /\ out.warning.v.blocked
    /\ lastSent = "Enable"

\* C21: a pass that read enabled = false ends with blocking_active false (and
\* the monitor's own flag false); when the block was armed at its start it
\* sent a Disable; it emits no PasteWarning, sends no Enable and goes no
\* further than recording the frontmost id.
C21_DisabledPassDisarms ==
    (pc = "done" /\ ~is_enabled) =>
        /\ exit = "disabled"
        /\ ~blocking_active /\ ~block_active
        /\ note.was_active => (SentDisarm /\ Len(out.sent) = 1 /\ lastSent = "Disable")
        /\ ~out.warning.some /\ ~SentArm
        /\ last_frontmost_id = current_id

\* a disabled pass that found the block armed and the clipboard unchanged
C21_Witness ==
    /\ pc = "done" /\ ~is_enabled /\ exit = "disabled"
    /\ note.was_active /\ ~out.changed
    /\ out.sent = <<"Disable">>
    /\ ~blocking_active

\* ------------------------------------------- toggling the guard on and off
\* The program with a fixed rule list and a fixed Accessibility permission:
\* the user switches applications, copies and toggles the guard.
NextToggle ==
    \/ SwitchApp
    \/ Copy
    \/ SetEnabled
    \/ TrayToggle
    \/ PollerSample
    \/ PollerEvaluate
    \/ PollerResolve
    \/ PollerLoop
    \/ WorkerRecvMac
    \/ WorkerInstallHook
    \/ WorkerTryRecv
    \/ WorkerBlock
    \/ WorkerGetMessage

SpecToggle == Init /\ [][NextToggle]_vars

\* the pass is on a destination a rule matches for the copy source, the two
\* being different applications, and the pair is not the one last warned
RiskyUnwarned ==
    /\ current_id.some /\ last_copy_source.some
    /\ is_cross_app(last_copy_source.v, current_id.v)
    /\ matches_rule(rules, last_copy_source.v.source_app_id, current_id.v).some
    /\ last_warned # SomeKey(last_copy_source.v.source_app_id, current_id)

\* C22: every pass, disabled ones included, records the sampled frontmost id
\* as last_frontmost_id; a pass counts as a switch only when it read enabled
\* and its sample differs from the id the previous pass recorded, and only
\* such a pass goes on to the rules, warns or arms.  So a pass that follows
\* re-enabling the guard on the destination the last disabled pass sampled
\* warns and arms nothing.
C22_DisabledPassRecordsFrontmost ==
    /\ [](pc \in {"resolve", "done"} => last_frontmost_id = current_id)
    /\ []((pc = "done" /\ (out.warning.some \/ SentArm)) => (is_enabled /\ switched))
    /\ [][(pc = "evaluate" /\ pc' # "evaluate") =>
            /\ switched' <=> (is_enabled' /\ current_id # last_frontmost_id)
            /\ pc' = "resolve" => switched'
            /\ current_id = last_frontmost_id =>
                  /\ pc' = "done" /\ ~out'.warning.some
                  /\ \A i \in 1..Len(out'.sent) : out'.sent[i] # "Enable"
                  /\ is_enabled' => out'.sent = out.sent]_vars

\* the guard is enabled again and the pass finds the user parked on a
\* destination it has not warned about: nothing is emitted or sent
C22_Witness ==
    /\ pc = "done" /\ enabled /\ is_enabled /\ exit = "noswitch"
    /\ ~out.changed
    /\ RiskyUnwarned
    /\ ~out.warning.some /\ out.sent = <<>> /\ ~blocking_active

\* C23: a PasteWarning or an Enable comes only from a pass whose sampled
\* frontmost id differs from the id the previous pass recorded, None being an
\* id like any other in that comparison.  A change to None drops an armed
\* block and warns nothing; a pass with an unchanged id that read enabled
\* sends nothing in its evaluation and ends there.
C23_OnlyOnFocusChange ==
    /\ []((pc = "done" /\ (out.warning.some \/ SentArm)) => (switched /\ current_id.some))
    /\ []((pc = "done" /\ is_enabled /\ switched /\ ~current_id.some) =>
            /\ exit = "nodest"
            /\ ~out.warning.some /\ ~SentArm
            /\ ~block_active /\ ~blocking_active
            /\ note.was_active => SentDisarm)
    /\ [][(pc = "evaluate" /\ pc' # "evaluate" /\ is_enabled') =>
            /\ switched' <=> (current_id # last_frontmost_id)
            /\ ~switched' => (exit' = "noswitch" /\ pc' = "done" /\ out' = out
                                /\ block_active' = block_active
                                /\ blocking_active' = blocking_active)
            /\ (switched' /\ block_active) => out'.sent = Append(out.sent, "Disable")]_vars

\* focus went from a blocked destination to an unresolved foreground process
C23_Witness ==
    /\ pc = "done" /\ is_enabled /\ switched
    /\ ~current_id.some /\ exit = "nodest"
    /\ note.was_active /\ ~out.changed
    /\ out.sent = <<"Disable">> /\ ~out.warning.some

\* C24: a pass whose frontmost id is None, or that finds no last_copy_source,
\* emits no PasteWarning and sends no Enable.  Until the monitor has observed
\* a clipboard change (last_change_count still has its start value) there is
\* no copy source, and nothing has been warned or sent.
C24_NeedsDestinationAndSource ==
    /\ (pc = "done" /\ (out.warning.some \/ SentArm)) =>
          (current_id.some /\ source.some /\ last_copy_source.some)
    /\ (pc = "done" /\ exit \in {"nodest", "nosource"}) =>
          (~out.warning.some /\ ~SentArm /\ ~block_active /\ ~blocking_active)
    /\ pc = "resolve" => (current_id.some /\ source.some)
    /\ last_change_count = 0 =>
          /\ ~last_copy_source.some
          /\ ~out.warning.some /\ lastSent = "none" /\ chan = <<>>
          /\ ~block_active /\ ~blocking_active

\* before any clipboard change: a switch to a destination that a rule with
\* a wildcard source matches ends at the missing copy source
C24_Witness ==
    /\ pc = "done" /\ is_enabled /\ switched /\ exit = "nosource"
    /\ last_change_count = 0
    /\ current_id.some
    /\ matches_rule(rules, NoneId, current_id.v).some
    /\ ~out.warning.some /\ out.sent = <<>>

\* --------------------------------------------- dedup across a fresh copy
\* The program with a fixed rule list and permission and the guard left
\* enabled, every clipboard change seen by the monitor leaving on record the
\* dedup key it found.
NextDedup ==
    \/ SwitchApp
    \/ Copy
    \/ PollerSampleSeen
    \/ PollerEvaluate
    \/ PollerResolve
    \/ PollerLoop
    \/ WorkerRecvMac
    \/ WorkerInstallHook
    \/ WorkerTryRecv
    \/ WorkerBlock
    \/ WorkerGetMessage

SpecDedup == Init /\ [][NextDedup]_vars

\* C25: a pass that sees a clipboard change leaves the dedup key at None, and
\* the first pass after it that reaches the rules with a matching pair (no
\* warning issued since the change) emits the PasteWarning for that pair,
\* whatever pair was last warned before the change.
C25_FreshCopyResetsDedup ==
    /\ []((pc \in {"evaluate", "resolve"} /\ out.changed) => last_warned = NoneKey)
    /\ [][(pc = "resolve" /\ pc' = "done" /\ prevWarned = NoneKey
            /\ matches_rule(rules, source.v.source_app_id, current_id.v).some) =>
            /\ exit' = "resolved"
            /\ out'.warning.some
            /\ out'.warning.v.source_app_id = source.v.source_app_id
            /\ out'.warning.v.dest_app_id = current_id
            /\ last_warned' = SomeKey(source.v.source_app_id, current_id)]_vars

\* the first warning after a clipboard change is for the pair that was the
\* last one warned before the change
C25_Witness ==
    /\ pc = "done" /\ exit = "resolved" /\ out.warning.some
    /\ ~out.changed
    /\ ~note.repeated
    /\ warned_before = SomeKey(out.warning.v.source_app_id, out.warning.v.dest_app_id)

\* C26: with the rules and the permission fixed and the guard enabled, a pass
\* that detects a switch to a destination whose pair the first matching rule
\* blocks, and for which the block was armed since the last clipboard change
\* (the pair is the dedup key), has sent Enable and left blocking_active true.
C26_RearmedOnReturn ==
    (/\ pc = "done" /\ is_enabled /\ switched /\ ~out.changed
     /\ matched.some /\ matched.v.action = "Block"
     /\ check_accessibility
     /\ last_warned = SomeKey(source.v.source_app_id, current_id))
    => (SentArm /\ blocking_active)

\* the pass that first arms the block for the pair
C26_FirstArmed ==
    /\ pc = "done" /\ exit = "resolved" /\ matched.v.action = "Block"
    /\ SentArm /\ blocking_active

\* the first rule of rs matching the pair is a Block rule
BlocksPair(rs, source_app_id, dest_app_id) ==
    /\ matches_rule(rs, source_app_id, dest_app_id).some
    /\ matches_rule(rs, source_app_id, dest_app_id).v.action = "Block"

\* C27: set_rules installed a list that blocks the pair (s, d), which the
\* list before it did not; a pass that read the new list, the guard enabled
\* and the permission granted, and detected a switch to d with s a different
\* application, has sent Enable and left blocking_active true.
C27_ArmsAfterRuleChange ==
    (/\ rules_call.made /\ rules_call.saved /\ rules = rules_call.arg
     /\ pc = "done" /\ is_enabled /\ switched
     /\ current_id.some /\ source.some
     /\ is_cross_app(source.v, current_id.v)
     /\ check_accessibility
     /\ matched = matches_rule(rules, source.v.source_app_id, current_id.v)
     /\ BlocksPair(rules, source.v.source_app_id, current_id.v)
     /\ ~BlocksPair(rules_call.before, source.v.source_app_id, current_id.v))
    => (SentArm /\ blocking_active)

\* a pass that arms under a rule the last set_rules call brought in
C27_ArmedUnderNewRules ==
    /\ rules_call.made /\ rules_call.saved
    /\ pc = "done" /\ exit = "resolved"
    /\ BlocksPair(rules, source.v.source_app_id, current_id.v)
    /\ ~BlocksPair(rules_call.before, source.v.source_app_id, current_id.v)
    /\ SentArm /\ blocking_active

\* C28: a pass that sees a clipboard change builds the copy source from the
\* one frontmost sample it also uses as destination, so the pass ends at the
\* same-app test or earlier: it never reaches the rules, emits no
\* PasteWarning and sends no Enable.
C28_ChangePassNeverWarns ==
    /\ (pc \in {"evaluate", "resolve", "done"} /\ out.changed) =>
          /\ last_copy_source = SomeEvent(ClipboardEvent(current_id, current_name))
          /\ out.event = last_copy_source
    /\ pc = "resolve" => ~out.changed
    /\ (pc = "done" /\ out.changed) =>
          /\ exit \in {"disabled", "noswitch", "nodest", "sameapp"}
          /\ ~out.warning.some /\ ~SentArm
          /\ ~block_active /\ ~blocking_active

\* a copy made in an application the user has just switched to, which a rule
\* with wildcards would match: the pass stops at the same-app test
C28_Witness ==
    /\ pc = "done" /\ out.changed /\ is_enabled /\ switched
    /\ exit = "sameapp"
    /\ matches_rule(rules, current_id, current_id.v).some
    /\ ~out.warning.some /\ ~SentArm

\* a step of the control surface: the operating system, the monitor thread
\* and the blocker thread all stand still
CommandStep == UNCHANGED <<envVars, pollerVars, workerVars, chan>>

\* C29: blocking_active is written by the monitor thread only.  A step of
\* set_enabled, the tray toggle or set_rules leaves blocking_active and
\* last_copy_source as they are and sends nothing; blocking_active changes
\* only in a step of the monitor; and it equals the monitor's block_active
\* at the end of every pass.
C29_OnlyMonitorWritesFlag ==
    /\ [](pc \in {"done", "sleep"} => blocking_active = block_active)
    /\ [][CommandStep =>
            /\ blocking_active' = blocking_active
            /\ last_copy_source' = last_copy_source
            /\ lastSent' = lastSent /\ out' = out]_vars
    /\ [][(blocking_active' # blocking_active \/ last_copy_source' # last_copy_source)
            => pc' # pc]_vars

\* the guard was switched off while the block is armed and the monitor has
\* not run since: the flag still says armed
C29_Witness ==
    /\ pc = "sleep" /\ ~enabled
    /\ block_active /\ blocking_active
    /\ lastSent = "Enable"

\* ------------------------------------------------------ a poisoned mutex
\* A thread panics while it holds the ClipboardState lock: from then on
\* lock() returns Err in every thread.
PoisonLock ==
    /\ ~poisoned
    /\ poisoned' = TRUE
    /\ UNCHANGED <<last_copy_source, enabled, rules, blocking_active>>
    /\ UNCHANGED <<envVars, pollerVars, chan, workerVars, histVars, rules_call>>

NextPoison ==
    \/ PoisonLock
    \/ SwitchApp
    \/ Copy
    \/ SetEnabled
    \/ PollerSample
    \/ PollerEvaluate
    \/ PollerResolve
    \/ PollerLoop
    \/ WorkerRecvMac
    \/ WorkerInstallHook
    \/ WorkerTryRecv
    \/ WorkerBlock
    \/ WorkerGetMessage

SpecPoison == Init /\ [][NextPoison]_vars

\* C30: with the lock poisoned, get_enabled answers true, get_rules the empty
\* list and get_clipboard_source None, and the writes of the commands are
\* lost; the monitor's evaluation reads enabled as true and the copy source
\* as absent, so it ends before the rules, and a pass already past that
\* point reads an empty rule list: neither emits a PasteWarning nor sends
\* Enable, and each ends the pass so that the loop goes on.
C30_PoisonedLockDegrades ==
    /\ [](poisoned =>
            (get_enabled = TRUE /\ get_rules = <<>> /\ get_clipboard_source = NoneEvent))
    /\ [][(poisoned /\ pc = "sleep" /\ pc' # pc) =>
            /\ pc' = "evaluate"
            /\ last_copy_source' = last_copy_source
            /\ blocking_active' = blocking_active]_vars
    /\ [][(poisoned /\ pc = "evaluate" /\ pc' # pc) =>
            /\ is_enabled' /\ ~source'.some
            /\ exit' \in {"noswitch", "nodest", "nosource"}
            /\ pc' = "done"
            /\ out'.warning = out.warning
            /\ \A i \in 1..Len(out'.sent) : out'.sent[i] # "Enable"]_vars
    /\ [][(poisoned /\ pc = "resolve" /\ pc' # pc) =>
            /\ exit' = "nomatch" /\ ~matched'.some
            /\ pc' = "done"
            /\ out' = out /\ chan' = chan]_vars
    /\ []((poisoned /\ pc = "done") => ENABLED PollerLoop)

\* the lock is poisoned while the guard is switched off and a copy source is
\* known; a pass that switches to a destination a rule matches takes the
\* guard for enabled, finds no copy source and ends silently
C30_Witness ==
    /\ poisoned /\ pc = "done"
    /\ ~enabled /\ is_enabled /\ switched
    /\ exit = "nosource"
    /\ last_copy_source.some /\ current_id.some
    /\ is_cross_app(last_copy_source.v, current_id.v)
    /\ matches_rule(rules, last_copy_source.v.source_app_id, current_id.v).some
    /\ ~out.warning.some /\ ~SentArm

====
